---- MODULE Spec2Model ----
(***************************************************************************)
(* Scheduled publishing of the CMS: the lesson lifecycle                   *)
(* (draft, scheduled, published, archived), the lesson -> program          *)
(* auto-publish cascade, the thumbnail precondition, the admin endpoints   *)
(* of the lesson controller and the publishing worker.                     *)
(*                                                                         *)
(* Storage is MongoDB through Mongoose.  Two library behaviours shape the  *)
(* model:                                                                  *)
(*  - document.save() of a loaded document sends only the paths whose      *)
(*    in-memory value differs from the loaded value ($set / $unset of the  *)
(*    modified paths, filtered by _id alone); there is no version check.   *)
(*  - session.withTransaction runs its callback on a snapshot taken at the *)
(*    first read; a write to a document that was written after the         *)
(*    snapshot, or that another open transaction has written, aborts the   *)
(*    transaction with a transient error and the callback is run again.    *)
(*    A write outside a transaction waits for an open transaction's write  *)
(*    on the same document.                                                *)
(*  - mongoose.model(name) without a schema returns the model registered   *)
(*    under that name in the process and throws MissingSchemaError when    *)
(*    there is none.                                                       *)
(***************************************************************************)
EXTENDS Integers, Sequences, FiniteSets, TLC

\* ---- bounds --------------------------------------------------------------
\* the clock runs from 1 to MaxTime
MaxTime == 2

\* the largest processedCount at which a failed commit is still retried
MaxCount == 3

Lessons == {"l1", "l2"}
Admins == {"a1", "a2"}
Workers == {"w1", "w2"}
Langs == {"en", "te"}

\* ---- program constants ---------------------------------------------------
\* JavaScript undefined / a field absent from the stored document.
NoDate == 0
Times == 1..MaxTime
\* times a client may ask for: NoDate (absent from the body), past, now, future
RequestTimes == 0..(MaxTime + 1)

requiredVariants == {"portrait", "landscape"}

\* The Mongoose models registered in the worker process.  The worker's
\* index.js requires ./models/Lesson, ./models/Term and ./models/Program and
\* nothing requires ./models/LessonAsset, although the file is in the
\* worker's tree; the worker's lessonSchema.methods.validateAssets looks the
\* model up with mongoose.model('LessonAsset'), which throws
\* MissingSchemaError when the model is not registered.
RequiredModels == {"Lesson", "Term", "Program"}
\* Both registries are modelled: the one index.js builds, and the one with
\* the worker's LessonAsset model also loaded, in which the worker's
\* publishing code runs.
Registries == {RequiredModels, RequiredModels \cup {"LessonAsset"}}

\* The timers startWorker sets: the setTimeout of the startup scan, pending
\* until it fires, and whether the cron job has fired yet.
TimersAtStart == [startup |-> "pending", cron |-> FALSE]
LessonStatus == {"draft", "scheduled", "published", "archived"}
ProgramStatus == {"draft", "published", "archived"}

VARIABLES now, lessons, assets, program, admin, worker, workerModels, timers

vars == <<now, lessons, assets, program, admin, worker, workerModels, timers>>

\* ---- documents -----------------------------------------------------------
\* A lesson as created by createLesson: status defaults to draft, no dates.
NewLesson == [status |-> "draft", publishAt |-> NoDate, publishedAt |-> NoDate,
              contentLanguagePrimary |-> "en"]

NewProgram == [status |-> "draft", publishedAt |-> NoDate]

NoDoc == [status |-> "none", publishAt |-> NoDate, publishedAt |-> NoDate,
          contentLanguagePrimary |-> "en"]

NoProgram == [status |-> "none", publishedAt |-> NoDate]

\* Schema validators of publishAt and publishedAt, run by save() on the
\* in-memory document.
ValidatorsPass(doc) ==
    /\ (doc.status # "scheduled" \/ doc.publishAt # NoDate)
    /\ (doc.status # "published" \/ doc.publishedAt # NoDate)

\* document.save(): the stored document after the modified paths of the
\* in-memory document are written.  loaded is the document as it was read,
\* edited is the in-memory document, fresh the paths assigned a new Date()
\* (a new timestamp is a modification), stored the document now in storage.
Save(loaded, edited, fresh, stored) ==
    [f \in DOMAIN stored |->
        IF f \in fresh \/ edited[f] # loaded[f] THEN edited[f] ELSE stored[f]]

\* ---- assets --------------------------------------------------------------
\* LessonAsset documents of type thumbnail: <<lessonId, language, variant>>.
AssetKeys == Lessons \X Langs \X requiredVariants

validateAssetsPortraitOnly(l, lang) ==
    LET availableVariants == {v \in requiredVariants : <<l, lang, v>> \in assets}
        missingVariants == {v \in {"portrait"} : v \notin availableVariants}
    IN [isValid |-> missingVariants = {}, missingVariants |-> missingVariants]

\* lessonSchema.methods.validateAssets, for a lesson whose in-memory
\* contentLanguagePrimary is lang.
validateAssets(l, lang) ==
    LET availableVariants == {v \in requiredVariants : <<l, lang, v>> \in assets}
        missingVariants == {v \in requiredVariants : v \notin availableVariants}
    IN [isValid |-> missingVariants = {}, missingVariants |-> missingVariants]

\* ---- processes -----------------------------------------------------------
\* An admin request between two awaits.  doc is the lesson as findById
\* returned it, prog the program as findById returned it, res the response.
AdminIdle == [pc |-> "idle", op |-> "none", l |-> "none", arg |-> NoDate,
              lang |-> "en", newStatus |-> "none", doc |-> NoDoc,
              prog |-> NoProgram, res |-> "none", missing |-> {}]

\* A worker tick.  found is scheduledLessons, i the position of the for loop,
\* cur/curProgram the transaction's snapshot, pendingPublishedAt and
\* pendingProgram the transaction's uncommitted writes, staleLesson and
\* staleProgram whether the document was written after the snapshot,
\* scanError whether the last tick ended in the outer catch.
WorkerIdle == [pc |-> "idle", found |-> <<>>, i |-> 1,
               processedCount |-> 0, errorCount |-> 0,
               cur |-> NoDoc, curProgram |-> NoProgram,
               pendingPublishedAt |-> NoDate, pendingProgram |-> NoProgram,
               staleLesson |-> FALSE, staleProgram |-> FALSE,
               scanError |-> FALSE]

\* the positions of the withTransaction callback after its first read
TransactionSteps == {"validate", "save", "cascade", "commit"}

CurrentLesson(w) == worker[w].found[worker[w].i]

\* the documents an open transaction has written and not yet committed
LessonLockedBy(w, l) ==
    /\ worker[w].pc \in {"cascade", "commit"}
    /\ CurrentLesson(w) = l

ProgramLockedBy(w) ==
    /\ worker[w].pc = "commit"
    /\ worker[w].pendingProgram # NoProgram

LessonLocked(l) == \E w \in Workers : LessonLockedBy(w, l)
ProgramLocked == \E w \in Workers : ProgramLockedBy(w)

\* A committed write of lesson l (writesProgram: of the program) makes the
\* snapshot of every open transaction that read it stale.
MarkStale(wk, l, writesProgram) ==
    [w \in Workers |->
        IF wk[w].pc \in TransactionSteps
        THEN [wk[w] EXCEPT
                !.staleLesson = @ \/ (l # "none" /\ wk[w].found[wk[w].i] = l),
                !.staleProgram = @ \/ writesProgram]
        ELSE wk[w]]

Init ==
    /\ now = 1
    /\ lessons = [l \in Lessons |-> NewLesson]
    /\ assets = {}
    /\ program = NewProgram
    /\ admin = [a \in Admins |-> AdminIdle]
    /\ worker = [w \in Workers |-> WorkerIdle]
    /\ workerModels \in Registries
    /\ timers = TimersAtStart

\* The clock advances.
Tick ==
    /\ now < MaxTime
    /\ now' = now + 1
    /\ UNCHANGED <<lessons, assets, program, admin, worker, workerModels, timers>>

\* ---- admin requests (lesson controller) ----------------------------------
\* the paths save() sends
Modified(loaded, edited, fresh) ==
    fresh \cup {f \in DOMAIN edited : edited[f] # loaded[f]}

\* the request has its response: only what the response carries is kept
Done(rec, result) ==
    [AdminIdle EXCEPT !.pc = "done", !.op = rec.op, !.l = rec.l,
                      !.arg = rec.arg, !.res = result]

\* POST /lessons/:id/publish -- Lesson.findById
publishLesson_findById(a, l) ==
    /\ admin[a].pc = "idle"
    /\ admin' = [admin EXCEPT ![a] =
            [AdminIdle EXCEPT !.pc = "loaded", !.op = "publish", !.l = l,
                              !.doc = lessons[l]]]
    /\ UNCHANGED <<now, lessons, assets, program, worker, workerModels, timers>>

\* lesson.publish(): validateAssets, throw when a variant is missing
publishLesson_validateAssets(a) ==
    /\ admin[a].pc = "loaded"
    /\ admin[a].op = "publish"
    /\ LET v == validateAssets(admin[a].l, admin[a].doc.contentLanguagePrimary)
       IN admin' = [admin EXCEPT ![a] =
            IF v.isValid
            THEN [@ EXCEPT !.pc = "validated"]
            ELSE [Done(@, "error") EXCEPT !.missing = v.missingVariants]]
    /\ UNCHANGED <<now, lessons, assets, program, worker, workerModels, timers>>

\* the lesson document lesson.publish() saves
publishEdited(doc, t) ==
    [doc EXCEPT !.status = "published", !.publishedAt = t, !.publishAt = NoDate]

\* lesson.publish(): status, publishedAt, publishAt assigned, this.save()
publishLesson_save(a) ==
    /\ admin[a].pc = "validated"
    /\ LET l == admin[a].l
           loaded == admin[a].doc
           edited == publishEdited(loaded, now)
       IN IF ValidatorsPass(edited)
          THEN /\ ~LessonLocked(l)
               /\ lessons' = [lessons EXCEPT ![l] =
                     Save(loaded, edited, {"publishedAt"}, lessons[l])]
               /\ worker' = MarkStale(worker, l, FALSE)
               /\ admin' = [admin EXCEPT ![a].pc = "saved", ![a].doc = edited]
          ELSE /\ admin' = [admin EXCEPT ![a] = Done(@, "error")]
               /\ UNCHANGED <<lessons, worker>>
    /\ UNCHANGED <<now, assets, program, workerModels, timers>>

publishLesson_findProgramSkipped(a) ==
    /\ admin[a].pc = "saved"
    /\ admin' = [admin EXCEPT ![a] = Done(@, "ok")]
    /\ UNCHANGED <<now, lessons, assets, program, worker, workerModels, timers>>

\* lesson.publish(): Term.findById, Program.findById, status === 'draft'
publishLesson_findProgram(a) ==
    /\ admin[a].pc = "saved"
    /\ admin' = [admin EXCEPT ![a] =
            IF program.status = "draft"
            THEN [@ EXCEPT !.pc = "progLoaded", !.prog = program]
            ELSE Done(@, "ok")]
    /\ UNCHANGED <<now, lessons, assets, program, worker, workerModels, timers>>

autoPublishEditedUnchanged(prog, t) == prog

\* programSchema.methods.autoPublish on the loaded program
autoPublishEdited(prog, t) ==
    IF prog.status = "draft"
    THEN [prog EXCEPT !.status = "published",
                      !.publishedAt = IF prog.publishedAt # NoDate
                                      THEN prog.publishedAt ELSE t]
    ELSE prog

publishLesson_autoPublish(a) ==
    /\ admin[a].pc = "progLoaded"
    /\ admin[a].op = "publish"
    /\ ~ProgramLocked
    /\ LET loaded == admin[a].prog
           edited == autoPublishEdited(loaded, now)
           fresh == IF loaded.status = "draft" /\ loaded.publishedAt = NoDate
                    THEN {"publishedAt"} ELSE {}
       IN /\ program' = Save(loaded, edited, fresh, program)
          /\ worker' = MarkStale(worker, "none", Modified(loaded, edited, fresh) # {})
    /\ admin' = [admin EXCEPT ![a] = Done(@, "ok")]
    /\ UNCHANGED <<now, lessons, assets, workerModels, timers>>

publishLesson_cascadeFailsRollsBack(a) ==
    /\ admin[a].op = "publish"
    /\ admin[a].pc \in {"saved", "progLoaded"}
    /\ lessons' = [lessons EXCEPT ![admin[a].l] = NewLesson]
    /\ admin' = [admin EXCEPT ![a] = Done(@, "error")]
    /\ UNCHANGED <<now, assets, program, worker, workerModels, timers>>

\* lesson.publish(): after this.save(), Term.findById, Program.findById or
\* program.autoPublish() rejects; the error reaches next(error), nothing
\* undoes the lesson's save
publishLesson_cascadeFails(a) ==
    /\ admin[a].op = "publish"
    /\ admin[a].pc \in {"saved", "progLoaded"}
    /\ admin' = [admin EXCEPT ![a] = Done(@, "error")]
    /\ UNCHANGED <<now, lessons, assets, program, worker, workerModels, timers>>

\* POST /lessons/:id/schedule -- body check, then Lesson.findById
scheduleLesson_findById(a, l, publishAt) ==
    /\ admin[a].pc = "idle"
    /\ admin' = [admin EXCEPT ![a] =
            IF publishAt = NoDate
            THEN Done([AdminIdle EXCEPT !.op = "schedule", !.l = l], "error")
            ELSE [AdminIdle EXCEPT !.pc = "loaded", !.op = "schedule", !.l = l,
                                   !.arg = publishAt, !.doc = lessons[l]]]
    /\ UNCHANGED <<now, lessons, assets, program, worker, workerModels, timers>>

\* the guard of lesson.schedule(publishAt)
scheduleRejects(publishAt, t) == publishAt = NoDate \/ publishAt <= t

scheduleEdited(doc, publishAt) ==
    [doc EXCEPT !.status = "scheduled", !.publishAt = publishAt,
                !.publishedAt = NoDate]

\* lesson.schedule(publishAt): throw unless in the future, else save
scheduleLesson_schedule(a) ==
    /\ admin[a].pc = "loaded"
    /\ admin[a].op = "schedule"
    /\ LET l == admin[a].l
           loaded == admin[a].doc
           edited == scheduleEdited(loaded, admin[a].arg)
       IN IF scheduleRejects(admin[a].arg, now) \/ ~ValidatorsPass(edited)
          THEN /\ admin' = [admin EXCEPT ![a] = Done(@, "error")]
               /\ UNCHANGED <<lessons, worker>>
          ELSE /\ ~LessonLocked(l)
               /\ lessons' = [lessons EXCEPT ![l] =
                     Save(loaded, edited, {}, lessons[l])]
               /\ worker' = IF Modified(loaded, edited, {}) # {}
                            THEN MarkStale(worker, l, FALSE) ELSE worker
               /\ admin' = [admin EXCEPT ![a] = Done(@, "ok")]
    /\ UNCHANGED <<now, assets, program, workerModels, timers>>

\* POST /lessons/:id/archive -- Lesson.findById
archiveLesson_findById(a, l) ==
    /\ admin[a].pc = "idle"
    /\ admin' = [admin EXCEPT ![a] =
            [AdminIdle EXCEPT !.pc = "loaded", !.op = "archive", !.l = l,
                              !.doc = lessons[l]]]
    /\ UNCHANGED <<now, lessons, assets, program, worker, workerModels, timers>>

\* lesson.archive(): status assigned, this.save()
archiveLesson_archive(a) ==
    /\ admin[a].pc = "loaded"
    /\ admin[a].op = "archive"
    /\ LET l == admin[a].l
           loaded == admin[a].doc
           edited == [loaded EXCEPT !.status = "archived"]
       IN IF ValidatorsPass(edited)
          THEN /\ ~LessonLocked(l)
               /\ lessons' = [lessons EXCEPT ![l] =
                     Save(loaded, edited, {}, lessons[l])]
               /\ worker' = IF Modified(loaded, edited, {}) # {}
                            THEN MarkStale(worker, l, FALSE) ELSE worker
               /\ admin' = [admin EXCEPT ![a] = Done(@, "ok")]
          ELSE /\ admin' = [admin EXCEPT ![a] = Done(@, "error")]
               /\ UNCHANGED <<lessons, worker>>
    /\ UNCHANGED <<now, assets, program, workerModels, timers>>

\* PUT /lessons/:id with contentLanguagePrimary (and its URL and available
\* languages, which the schema requires) -- Lesson.findById
updateLesson_findById(a, l, lang) ==
    /\ admin[a].pc = "idle"
    /\ admin' = [admin EXCEPT ![a] =
            [AdminIdle EXCEPT !.pc = "loaded", !.op = "update", !.l = l,
                              !.lang = lang, !.doc = lessons[l]]]
    /\ UNCHANGED <<now, lessons, assets, program, worker, workerModels, timers>>

\* updateLesson: fields assigned, lesson.save()
updateLesson_save(a) ==
    /\ admin[a].pc = "loaded"
    /\ admin[a].op = "update"
    /\ LET l == admin[a].l
           loaded == admin[a].doc
           edited == [loaded EXCEPT !.contentLanguagePrimary = admin[a].lang]
       IN IF ValidatorsPass(edited)
          THEN /\ ~LessonLocked(l)
               /\ lessons' = [lessons EXCEPT ![l] =
                     Save(loaded, edited, {}, lessons[l])]
               /\ worker' = IF Modified(loaded, edited, {}) # {}
                            THEN MarkStale(worker, l, FALSE) ELSE worker
               /\ admin' = [admin EXCEPT ![a] = Done(@, "ok")]
          ELSE /\ admin' = [admin EXCEPT ![a] = Done(@, "error")]
               /\ UNCHANGED <<lessons, worker>>
    /\ UNCHANGED <<now, assets, program, workerModels, timers>>

\* PUT /programs/:id with status -- Program.findById
updateProgram_findById(a, status) ==
    /\ admin[a].pc = "idle"
    /\ admin' = [admin EXCEPT ![a] =
            [AdminIdle EXCEPT !.pc = "progLoaded", !.op = "updateProgram",
                              !.newStatus = status, !.prog = program]]
    /\ UNCHANGED <<now, lessons, assets, program, worker, workerModels, timers>>

\* updateProgram: program.status = status, program.save()
updateProgram_save(a) ==
    /\ admin[a].pc = "progLoaded"
    /\ admin[a].op = "updateProgram"
    /\ ~ProgramLocked
    /\ LET loaded == admin[a].prog
           edited == [loaded EXCEPT !.status = admin[a].newStatus]
       IN /\ program' = Save(loaded, edited, {}, program)
          /\ worker' = MarkStale(worker, "none", Modified(loaded, edited, {}) # {})
    /\ admin' = [admin EXCEPT ![a] = Done(@, "ok")]
    /\ UNCHANGED <<now, lessons, assets, workerModels, timers>>

\* POST /lessons/:id/assets: the thumbnail exists afterwards
uploadLessonAsset(l, lang, variant) ==
    /\ assets' = assets \cup {<<l, lang, variant>>}
    /\ UNCHANGED <<now, lessons, program, admin, worker, workerModels, timers>>

\* DELETE /lessons/:id/assets/:assetId
deleteLessonAsset(k) ==
    /\ k \in assets
    /\ assets' = assets \ {k}
    /\ UNCHANGED <<now, lessons, program, admin, worker, workerModels, timers>>

\* res.json(...) or next(error): the request is over
respond(a) ==
    /\ admin[a].pc = "done"
    /\ admin' = [admin EXCEPT ![a] = AdminIdle]
    /\ UNCHANGED <<now, lessons, assets, program, worker, workerModels, timers>>

\* ---- the publishing worker ------------------------------------------------
\* Lesson.find({status: 'scheduled', publishAt: {$lte: now}})
Due(t) == {l \in Lessons : lessons[l].status = "scheduled"
                            /\ lessons[l].publishAt # NoDate
                            /\ lessons[l].publishAt <= t}

Unsorted(S) ==
    {q \in [1..Cardinality(S) -> S] :
        \A i, j \in 1..Cardinality(S) : i # j => q[i] # q[j]}

\* .sort({publishAt: 1}): the orders of S that ascend in publishAt
SortedByPublishAt(S) ==
    {q \in [1..Cardinality(S) -> S] :
        /\ \A i, j \in 1..Cardinality(S) : i # j => q[i] # q[j]
        /\ \A i, j \in 1..Cardinality(S) :
              i < j => lessons[q[i]].publishAt <= lessons[q[j]].publishAt}

\* processScheduledLessons: counters reset, the due query
processScheduledLessons_find(w) ==
    /\ worker[w].pc = "idle"
    /\ \E q \in SortedByPublishAt(Due(now)) :
         worker' = [worker EXCEPT ![w] = [WorkerIdle EXCEPT !.pc = "loop", !.found = q]]
    /\ UNCHANGED <<now, lessons, assets, program, admin, workerModels, timers>>

processScheduledLessons_findEscapes(w) ==
    /\ worker[w].pc = "idle"
    /\ worker' = [worker EXCEPT ![w] = [WorkerIdle EXCEPT !.pc = "crashed",
                                                          !.scanError = TRUE]]
    /\ UNCHANGED <<now, lessons, assets, program, admin, workerModels, timers>>

\* processScheduledLessons: Lesson.find rejects; the outer catch logs the
\* error and the function returns, no lesson was read
processScheduledLessons_findFails(w) ==
    /\ worker[w].pc = "idle"
    /\ worker' = [worker EXCEPT ![w] = [WorkerIdle EXCEPT !.scanError = TRUE]]
    /\ UNCHANGED <<now, lessons, assets, program, admin, workerModels, timers>>

\* the callback returns (or is about to): the empty or finished transaction
\* ends and the for loop moves on
NextLesson(rec) ==
    [rec EXCEPT !.pc = "loop", !.i = @ + 1,
                !.cur = NoDoc, !.curProgram = NoProgram,
                !.pendingPublishedAt = NoDate, !.pendingProgram = NoProgram,
                !.staleLesson = FALSE, !.staleProgram = FALSE]

\* the transaction aborts with a transient error: withTransaction runs the
\* callback again for the same lesson
Retry(rec) ==
    [rec EXCEPT !.pc = "loop",
                !.cur = NoDoc, !.curProgram = NoProgram,
                !.pendingPublishedAt = NoDate, !.pendingProgram = NoProgram,
                !.staleLesson = FALSE, !.staleProgram = FALSE]

\* the double check of the callback: the lesson is skipped unless scheduled
stillScheduledAlways(doc) == TRUE

stillScheduled(doc) == doc.status = "scheduled"

processScheduledLessons_findByIdCountsError(w) ==
    /\ worker[w].pc = "loop"
    /\ worker[w].i <= Len(worker[w].found)
    /\ LET l == CurrentLesson(w)
       IN worker' = [worker EXCEPT ![w] =
            IF stillScheduled(lessons[l])
            THEN [@ EXCEPT !.pc = "validate", !.cur = lessons[l],
                           !.curProgram = program]
            ELSE [NextLesson(@) EXCEPT !.errorCount = @ + 1]]
    /\ UNCHANGED <<now, lessons, assets, program, admin, workerModels, timers>>

\* withTransaction callback: Lesson.findById(...).session(session), the
\* first read, fixes the snapshot
processScheduledLessons_findById(w) ==
    /\ worker[w].pc = "loop"
    /\ worker[w].i <= Len(worker[w].found)
    /\ LET l == CurrentLesson(w)
       IN worker' = [worker EXCEPT ![w] =
            IF stillScheduled(lessons[l])
            THEN [@ EXCEPT !.pc = "validate", !.cur = lessons[l],
                           !.curProgram = program]
            ELSE NextLesson(@)]
    /\ UNCHANGED <<now, lessons, assets, program, admin, workerModels, timers>>

processScheduledLessons_validateAssetsSkipped(w) ==
    /\ worker[w].pc = "validate"
    /\ worker' = [worker EXCEPT ![w].pc = "save"]
    /\ UNCHANGED <<now, lessons, assets, program, admin, workerModels, timers>>

\* currentLesson.validateAssets(): mongoose.model('LessonAsset') throws when
\* the model is not registered (the transaction aborts, the catch of the loop
\* counts an error); else LessonAsset.find runs without the session
processScheduledLessons_validateAssets(w) ==
    /\ worker[w].pc = "validate"
    /\ LET v == validateAssets(CurrentLesson(w), worker[w].cur.contentLanguagePrimary)
       IN worker' = [worker EXCEPT ![w] =
            IF "LessonAsset" \notin workerModels
            THEN [NextLesson(@) EXCEPT !.errorCount = @ + 1]
            ELSE IF v.isValid
                 THEN [@ EXCEPT !.pc = "save"]
                 ELSE [NextLesson(@) EXCEPT !.errorCount = @ + 1]]
    /\ UNCHANGED <<now, lessons, assets, program, admin, workerModels, timers>>

\* whether the transaction's write of the lesson / program conflicts
ProgramConflictNever(w) == FALSE

LessonConflict(w) ==
    \/ worker[w].staleLesson
    \/ \E o \in Workers \ {w} : LessonLockedBy(o, CurrentLesson(w))

ProgramConflict(w) ==
    \/ worker[w].staleProgram
    \/ \E o \in Workers \ {w} : ProgramLockedBy(o)

\* status, publishedAt, publishAt assigned, currentLesson.save({session});
\* a validation error is not transient: it reaches the catch of the loop
processScheduledLessons_save(w) ==
    /\ worker[w].pc = "save"
    /\ worker' = [worker EXCEPT ![w] =
            IF ~ValidatorsPass(publishEdited(worker[w].cur, now))
            THEN [NextLesson(@) EXCEPT !.errorCount = @ + 1]
            ELSE IF LessonConflict(w)
                 THEN Retry(@)
                 ELSE [@ EXCEPT !.pc = "cascade", !.pendingPublishedAt = now]]
    /\ UNCHANGED <<now, lessons, assets, program, admin, workerModels, timers>>

\* Term.findById, Program.findById in the session; a draft program is set
\* published and saved in the session; processedCount++
processScheduledLessons_program(w) ==
    /\ worker[w].pc = "cascade"
    /\ LET prog == worker[w].curProgram
       IN worker' = [worker EXCEPT ![w] =
            IF prog.status = "draft"
            THEN IF ProgramConflict(w)
                 THEN Retry(@)
                 ELSE [@ EXCEPT !.pc = "commit",
                                !.pendingProgram = autoPublishEdited(prog, now),
                                !.processedCount = @ + 1]
            ELSE [@ EXCEPT !.pc = "commit", !.processedCount = @ + 1]]
    /\ UNCHANGED <<now, lessons, assets, program, admin, workerModels, timers>>

\* the callback returned: the transaction commits its writes
processScheduledLessons_commit(w) ==
    /\ worker[w].pc = "commit"
    /\ LET l == CurrentLesson(w)
           loaded == worker[w].cur
           edited == publishEdited(loaded, worker[w].pendingPublishedAt)
           writesProgram == worker[w].pendingProgram # NoProgram
       IN /\ lessons' = [lessons EXCEPT ![l] =
                Save(loaded, edited, {"publishedAt"}, lessons[l])]
          /\ program' = IF writesProgram
                        THEN Save(worker[w].curProgram, worker[w].pendingProgram,
                                  {}, program)
                        ELSE program
          /\ worker' = [MarkStale(worker, l, writesProgram) EXCEPT
                            ![w] = NextLesson(worker[w])]
    /\ UNCHANGED <<now, assets, admin, workerModels, timers>>

\* session.withTransaction: commitTransaction rejects after the callback
\* returned (processedCount already incremented).  A transient error makes
\* withTransaction run the callback again with the counters as they are; any
\* other error is rethrown to the catch of the loop, which counts an error.
processScheduledLessons_commitFails(w) ==
    /\ worker[w].pc = "commit"
    /\ \/ /\ worker[w].processedCount < MaxCount
          /\ worker' = [worker EXCEPT ![w] = Retry(@)]
       \/ worker' = [worker EXCEPT ![w] = [NextLesson(@) EXCEPT !.errorCount = @ + 1]]
    /\ UNCHANGED <<now, lessons, assets, program, admin, workerModels, timers>>

processScheduledLessons_catchAborts(w) ==
    /\ \/ worker[w].pc = "loop" /\ worker[w].i <= Len(worker[w].found)
       \/ worker[w].pc \in {"validate", "save", "cascade"}
    /\ worker' = [worker EXCEPT ![w] = WorkerIdle]
    /\ UNCHANGED <<now, lessons, assets, program, admin, workerModels, timers>>

\* an await of the try block (startSession, a read or a write of the
\* callback) rejects with an error that is not transient: withTransaction
\* aborts the transaction and rethrows, the catch of the loop logs the
\* lesson and counts an error, and the for loop goes on
processScheduledLessons_catch(w) ==
    /\ \/ worker[w].pc = "loop" /\ worker[w].i <= Len(worker[w].found)
       \/ worker[w].pc \in {"validate", "save", "cascade"}
    /\ worker' = [worker EXCEPT ![w] = [NextLesson(@) EXCEPT !.errorCount = @ + 1]]
    /\ UNCHANGED <<now, lessons, assets, program, admin, workerModels, timers>>

\* the loop is over: the run report is logged and the tick ends
processScheduledLessons_report(w) ==
    /\ worker[w].pc = "loop"
    /\ worker[w].i > Len(worker[w].found)
    /\ worker' = [worker EXCEPT ![w] = WorkerIdle]
    /\ UNCHANGED <<now, lessons, assets, program, admin, workerModels, timers>>

\* ---- specifications -------------------------------------------------------
\* the requests of the lesson controller admin a sends about the lessons Ls
LessonRequests(a, Ls) ==
    \/ \E l \in Ls : publishLesson_findById(a, l)
    \/ publishLesson_validateAssets(a)
    \/ publishLesson_save(a)
    \/ publishLesson_findProgram(a)
    \/ publishLesson_autoPublish(a)
    \/ \E l \in Ls, t \in RequestTimes : scheduleLesson_findById(a, l, t)
    \/ scheduleLesson_schedule(a)
    \/ \E l \in Ls : archiveLesson_findById(a, l)
    \/ archiveLesson_archive(a)
    \/ respond(a)

LanguageRequests(a, Ls) ==
    \/ \E l \in Ls, lang \in Langs : updateLesson_findById(a, l, lang)
    \/ updateLesson_save(a)

ProgramRequests(a) ==
    \/ \E st \in ProgramStatus : updateProgram_findById(a, st)
    \/ updateProgram_save(a)

AssetRequests(Ls) ==
    \/ \E l \in Ls, lang \in Langs, v \in requiredVariants : uploadLessonAsset(l, lang, v)
    \/ \E k \in AssetKeys : deleteLessonAsset(k)

WorkerStep(w) ==
    \/ processScheduledLessons_find(w)
    \/ processScheduledLessons_findById(w)
    \/ processScheduledLessons_validateAssets(w)
    \/ processScheduledLessons_save(w)
    \/ processScheduledLessons_program(w)
    \/ processScheduledLessons_commit(w)
    \/ processScheduledLessons_report(w)

\* One admin, one worker and the asset endpoints on one lesson.
Next ==
    \/ Tick
    \/ LessonRequests("a1", {"l1"})
    \/ LanguageRequests("a1", {"l1"})
    \/ AssetRequests({"l1"})
    \/ WorkerStep("w1")

Spec == Init /\ [][Next]_vars

\* Two admins on one lesson whose thumbnails are uploaded; no worker runs.
CompleteAssets(Ls) == {<<l, "en", v>> : l \in Ls, v \in requiredVariants}

InitAdmins ==
    /\ now = 1
    /\ lessons = [l \in Lessons |-> NewLesson]
    /\ assets = CompleteAssets({"l1"})
    /\ program = NewProgram
    /\ admin = [a \in Admins |-> AdminIdle]
    /\ worker = [w \in Workers |-> WorkerIdle]
    /\ workerModels = RequiredModels
    /\ timers = TimersAtStart

NextAdmins ==
    \/ Tick
    \/ LessonRequests("a1", {"l1"})
    \/ LessonRequests("a2", {"l1"})

SpecAdmins == InitAdmins /\ [][NextAdmins]_vars

\* Two workers (or two overlapping ticks) and no admin: the lessons are
\* drafts or were scheduled earlier, with or without their thumbnails.
ScheduledLesson(t) == [NewLesson EXCEPT !.status = "scheduled", !.publishAt = t]

InitRace ==
    /\ now = 1
    /\ lessons \in [Lessons -> {NewLesson} \cup {ScheduledLesson(t) : t \in Times}]
    /\ assets \in {CompleteAssets(Ls) : Ls \in SUBSET Lessons}
    /\ program \in {NewProgram, [status |-> "published", publishedAt |-> 1]}
    /\ admin = [a \in Admins |-> AdminIdle]
    /\ worker = [w \in Workers |-> WorkerIdle]
    /\ workerModels \in Registries
    /\ timers = TimersAtStart

NextRace ==
    \/ Tick
    \/ \E w \in Workers : WorkerStep(w)

SpecRace == InitRace /\ [][NextRace]_vars

\* Publishing and the program cascade: two lessons of one program with their
\* thumbnails, one a draft and one scheduled and due, one admin publishing lessons, one updating the program's
\* status, and one worker.
PublishRequests(a, Ls) ==
    \/ \E l \in Ls : publishLesson_findById(a, l)
    \/ publishLesson_validateAssets(a)
    \/ publishLesson_save(a)
    \/ publishLesson_findProgram(a)
    \/ publishLesson_autoPublish(a)
    \/ respond(a)

InitCascade ==
    /\ now = 1
    /\ lessons = [l \in Lessons |->
                    IF l = "l1" THEN NewLesson ELSE ScheduledLesson(1)]
    /\ assets = CompleteAssets(Lessons)
    /\ program = NewProgram
    /\ admin = [a \in Admins |-> AdminIdle]
    /\ worker = [w \in Workers |-> WorkerIdle]
    /\ workerModels \in Registries
    /\ timers = TimersAtStart

NextCascade ==
    \/ Tick
    \/ PublishRequests("a1", Lessons)
    \/ ProgramRequests("a2")
    \/ respond("a2")
    \/ WorkerStep("w1")

SpecCascade == InitCascade /\ [][NextCascade]_vars

\* The demo flow: an admin schedules draft lessons that have their
\* thumbnails and then leaves them alone; the clock advances and the cron
\* job keeps running processScheduledLessons.
scheduleDraft(a, l, publishAt) ==
    /\ lessons[l].status = "draft"
    /\ scheduleLesson_findById(a, l, publishAt)

InitDemo ==
    /\ now = 1
    /\ lessons = [l \in Lessons |-> NewLesson]
    /\ assets = CompleteAssets(Lessons)
    /\ program = NewProgram
    /\ admin = [a \in Admins |-> AdminIdle]
    /\ worker = [w \in Workers |-> WorkerIdle]
    /\ workerModels \in Registries
    /\ timers = TimersAtStart

NextDemo ==
    \/ Tick
    \/ \E l \in Lessons, t \in RequestTimes : scheduleDraft("a1", l, t)
    \/ scheduleLesson_schedule("a1")
    \/ respond("a1")
    \/ WorkerStep("w1")

\* cron.schedule fires every minute and every await of a tick returns
SpecDemo ==
    InitDemo /\ [][NextDemo]_vars /\ WF_vars(Tick) /\ WF_vars(WorkerStep("w1"))

\* An admin who wants a scheduled publication cancelled and uses every
\* lesson operation the admin routes offer, again and again; no worker runs.
NextCancel ==
    \/ Tick
    \/ LessonRequests("a1", {"l1"})
    \/ LanguageRequests("a1", {"l1"})

SpecCancel ==
    /\ InitAdmins /\ [][NextCancel]_vars
    /\ WF_vars(NextCancel)
    /\ SF_vars(publishLesson_findById("a1", "l1"))
    /\ SF_vars(\E t \in RequestTimes : scheduleLesson_findById("a1", "l1", t))
    /\ SF_vars(archiveLesson_findById("a1", "l1"))
    /\ SF_vars(\E lang \in Langs : updateLesson_findById("a1", "l1", lang))

\* One tick after another of one worker over lessons scheduled earlier, with
\* or without their thumbnails, while storage operations may fail.
NextFailures ==
    \/ Tick
    \/ WorkerStep("w1")
    \/ processScheduledLessons_catch("w1")
    \/ processScheduledLessons_findFails("w1")

SpecFailures == InitRace /\ [][NextFailures]_vars

\* startWorker: the cron job calls processScheduledLessons at every minute
\* boundary and a setTimeout calls it once, five seconds after the start;
\* neither looks at whether an earlier call is still running.  The records
\* of worker are here the calls in flight in one worker process.
cronTick(w) ==
    /\ worker[w].pc = "idle"
    /\ \E q \in SortedByPublishAt(Due(now)) :
         worker' = [worker EXCEPT ![w] = [WorkerIdle EXCEPT !.pc = "loop", !.found = q]]
    /\ timers' = [timers EXCEPT !.cron = TRUE]
    /\ UNCHANGED <<now, lessons, assets, program, admin, workerModels>>

startupScan(w) ==
    /\ timers.startup = "pending"
    /\ worker[w].pc = "idle"
    /\ \E q \in SortedByPublishAt(Due(now)) :
         worker' = [worker EXCEPT ![w] = [WorkerIdle EXCEPT !.pc = "loop", !.found = q]]
    /\ timers' = [timers EXCEPT !.startup = "fired"]
    /\ UNCHANGED <<now, lessons, assets, program, admin, workerModels>>

\* the steps of a call of processScheduledLessons after its due query
ProcessingSteps(w) ==
    \/ processScheduledLessons_findById(w)
    \/ processScheduledLessons_validateAssets(w)
    \/ processScheduledLessons_save(w)
    \/ processScheduledLessons_program(w)
    \/ processScheduledLessons_commit(w)
    \/ processScheduledLessons_report(w)

NextWorker ==
    \/ Tick
    \/ \E w \in Workers : cronTick(w)
    \/ \E w \in Workers : startupScan(w)
    \/ \E w \in Workers : ProcessingSteps(w)

SpecWorker == InitRace /\ [][NextWorker]_vars

\* Publications whose cascade may fail: an admin publishing the lessons and
\* one worker, storage operations may reject.
NextCascadeFailures ==
    \/ Tick
    \/ PublishRequests("a1", Lessons)
    \/ publishLesson_cascadeFails("a1")
    \/ WorkerStep("w1")
    \/ processScheduledLessons_catch("w1")

SpecCascadeFailures == InitCascade /\ [][NextCascadeFailures]_vars

\* One worker whose commits may fail.
NextCommitFailures ==
    \/ Tick
    \/ WorkerStep("w1")
    \/ processScheduledLessons_commitFails("w1")

SpecCommitFailures == InitRace /\ [][NextCommitFailures]_vars

\* Publish, schedule and archive requests of one admin on a draft and a
\* scheduled lesson and the ticks of one worker; the program is a draft,
\* published or archived at the start and no request updates it.
InitLifecycle ==
    /\ now = 1
    /\ lessons = [l \in Lessons |->
                    IF l = "l1" THEN NewLesson ELSE ScheduledLesson(1)]
    /\ assets = CompleteAssets(Lessons)
    /\ program \in {NewProgram, [status |-> "published", publishedAt |-> 1],
                     [status |-> "archived", publishedAt |-> NoDate]}
    /\ admin = [a \in Admins |-> AdminIdle]
    /\ worker = [w \in Workers |-> WorkerIdle]
    /\ workerModels \in Registries
    /\ timers = TimersAtStart

NextLifecycle ==
    \/ Tick
    \/ LessonRequests("a1", Lessons)
    \/ WorkerStep("w1")

SpecLifecycle == InitLifecycle /\ [][NextLifecycle]_vars

\* Two lessons scheduled and due whose thumbnails are uploaded while the
\* worker keeps ticking; no admin touches the lessons and no asset is
\* deleted.  The cron job keeps firing and every awaited step returns.
InitRetry ==
    /\ now = 1
    /\ lessons = [l \in Lessons |-> ScheduledLesson(1)]
    /\ assets = {}
    /\ program = NewProgram
    /\ admin = [a \in Admins |-> AdminIdle]
    /\ worker = [w \in Workers |-> WorkerIdle]
    /\ workerModels \in Registries
    /\ timers = TimersAtStart

NextRetry ==
    \/ Tick
    \/ \E l \in Lessons, lang \in Langs, v \in requiredVariants :
            uploadLessonAsset(l, lang, v)
    \/ WorkerStep("w1")

SpecRetry == InitRetry /\ [][NextRetry]_vars /\ WF_vars(WorkerStep("w1"))

\* ---- claims -------------------------------------------------------------
\* the lessons worker w has gone through in its tick
Passed(w, l) ==
    \E j \in 1..Len(worker[w].found) : j < worker[w].i /\ worker[w].found[j] = l

Missing(l, lang) == requiredVariants \ {v \in requiredVariants : <<l, lang, v>> \in assets}

PublishedLessons == {l \in Lessons : lessons[l].status = "published"}

RECURSIVE SumProcessed(_)
SumProcessed(Ws) ==
    IF Ws = {} THEN 0
    ELSE LET w == CHOOSE x \in Ws : TRUE
         IN worker[w].processedCount + SumProcessed(Ws \ {w})

\* C1 (as claimed): when two worker executions race on scheduled, due lessons with
\* complete thumbnails, each lesson is published exactly once: every write
\* of a lesson takes it from scheduled to published (so publishedAt is
\* written once), the program is written once (draft to published), the
\* published outcomes counted by the workers never exceed the lessons
\* published, and a lesson with its thumbnails that a worker has gone
\* through is published.
C1_RacePublishesExactlyOnce ==
    /\ [][\A l \in Lessons : lessons'[l] # lessons[l] =>
            /\ lessons[l].status = "scheduled"
            /\ lessons'[l].status = "published"
            /\ lessons'[l].publishedAt # NoDate
            /\ lessons'[l].publishAt = NoDate]_vars
    /\ [][program' # program =>
            program.status = "draft" /\ program'.status = "published"]_vars
    /\ [](SumProcessed(Workers) <=
            Cardinality(PublishedLessons)
            + Cardinality({w \in Workers : worker[w].pc = "commit"}))
    /\ [](\A w \in Workers, l \in Lessons :
            Passed(w, l) /\ Missing(l, lessons[l].contentLanguagePrimary) = {}
                => lessons[l].status = "published")

C4_PublishOnlyFromDraftOrScheduled ==
    /\ [][\A a \in Admins : publishLesson_save(a) =>
            lessons[admin[a].l].status \in {"draft", "scheduled"}]_vars
    /\ [][\A l \in Lessons :
            lessons[l].status = "published" /\ lessons'[l].status = "published"
                => lessons'[l].publishedAt = lessons[l].publishedAt]_vars

\* C5 (as claimed): whenever a lesson's status becomes published, the
\* portrait and landscape thumbnails of its primary content language exist
\* at the moment of the write.
C5_PublishedHasThumbnails ==
    [][\A l \in Lessons :
            lessons[l].status # "published" /\ lessons'[l].status = "published"
                => Missing(l, lessons'[l].contentLanguagePrimary) = {}]_vars

\* C6 (as claimed): a scheduled lesson has a publishAt and a published
\* lesson has a publishedAt, in every reachable state.
C6_DatesPresent ==
    \A l \in Lessons :
        /\ lessons[l].status = "scheduled" => lessons[l].publishAt # NoDate
        /\ lessons[l].status = "published" => lessons[l].publishedAt # NoDate

\* C7 (as claimed): publishAt is present if and only if the status is
\* scheduled, and publishedAt if and only if it is published.
C7_DatesIffStatus ==
    \A l \in Lessons :
        /\ lessons[l].status = "scheduled" <=> lessons[l].publishAt # NoDate
        /\ lessons[l].status = "published" <=> lessons[l].publishedAt # NoDate

\* C8: a worker step on a lesson that is already published changes neither
\* the lesson nor the program.
C8_WorkerIdempotent ==
    [][\A w \in Workers :
            (/\ worker[w].pc \notin {"idle"}
             /\ worker[w].i <= Len(worker[w].found)
             /\ WorkerStep(w)
             /\ lessons[CurrentLesson(w)].status = "published")
            => /\ lessons'[CurrentLesson(w)] = lessons[CurrentLesson(w)]
               /\ program' = program]_vars

\* C8 witness: the worker has gone through a lesson of its due list that was
\* published by someone else, counting neither a publication nor an error.
C8_Witness ==
    \E w \in Workers :
        /\ worker[w].pc = "loop"
        /\ Len(worker[w].found) = 1
        /\ worker[w].i = 2
        /\ lessons[worker[w].found[1]].status = "published"
        /\ worker[w].processedCount = 0
        /\ worker[w].errorCount = 0

\* C9: an admin publish of a lesson that lacks a required thumbnail of its
\* primary content language (as the request loaded it) ends in an error that
\* names exactly the missing variants, and the step changes neither the
\* lesson nor the program; no publish request writes before this check.
C9_PublishRejectedNamesMissing ==
    /\ [][\A a \in Admins :
            (/\ admin[a].pc = "loaded"
             /\ admin[a].op = "publish"
             /\ admin'[a] # admin[a]
             /\ Missing(admin[a].l, admin[a].doc.contentLanguagePrimary) # {})
            => /\ admin'[a].pc = "done"
               /\ admin'[a].res = "error"
               /\ admin'[a].missing =
                    Missing(admin[a].l, admin[a].doc.contentLanguagePrimary)
               /\ lessons' = lessons
               /\ program' = program]_vars
    /\ [][\A a \in Admins :
            admin[a].op = "publish" /\ admin[a].pc = "loaded"
                => lessons' = lessons \/ admin'[a] = admin[a]]_vars

\* C9 witness: a publish request was rejected naming landscape alone.
C9_Witness ==
    \E a \in Admins :
        /\ admin[a].pc = "done"
        /\ admin[a].op = "publish"
        /\ admin[a].res = "error"
        /\ admin[a].missing = {"landscape"}
        /\ lessons[admin[a].l].status = "draft"

\* C10 (as claimed): schedule with a publishAt that is absent, equal to the
\* current time or past is rejected and writes nothing; schedule with a later
\* publishAt succeeds and
\* leaves the lesson scheduled with the requested publishAt.
C10_ScheduleOnlyFuture ==
    /\ [][\A a \in Admins :
            (admin[a].pc = "idle" /\ admin'[a].op = "schedule"
                /\ admin'[a].pc = "done")
            => admin'[a].res = "error" /\ lessons' = lessons]_vars
    /\ [][\A a \in Admins :
            (admin[a].pc = "loaded" /\ admin[a].op = "schedule"
                /\ admin'[a] # admin[a])
            => IF admin[a].arg <= now
               THEN admin'[a].res = "error" /\ lessons' = lessons
               ELSE /\ admin'[a].res = "ok"
                    /\ lessons'[admin[a].l].status = "scheduled"
                    /\ lessons'[admin[a].l].publishAt = admin[a].arg]_vars

\* C11: the cascade of a publication, on the program as the cascade read it:
\* when the program was read as draft the cascade's write leaves it published
\* with a publishedAt; when it was read as published the cascade writes
\* nothing to the program.  Admin publish and worker alike.
C11_CascadePublishesDraftProgram ==
    /\ [][\A a \in Admins : publishLesson_autoPublish(a) =>
            /\ admin[a].prog.status = "draft"
            /\ program'.status = "published"
            /\ program'.publishedAt # NoDate]_vars
    /\ [][\A a \in Admins :
            publishLesson_findProgram(a) /\ program.status = "published"
                => admin'[a].pc = "done" /\ admin'[a].res = "ok"]_vars
    /\ [][\A a \in Admins :
            admin[a].op = "publish" /\ admin[a].pc # "progLoaded"
                /\ admin'[a] # admin[a]
                => program' = program]_vars
    /\ [][\A w \in Workers : processScheduledLessons_commit(w) =>
            IF worker[w].curProgram.status = "draft"
            THEN program'.status = "published" /\ program'.publishedAt # NoDate
            ELSE program' = program]_vars

\* C11 witness: the program was published by the cascade of one lesson, and
\* the admin publish of a further lesson has ended without touching it.
C11_Witness ==
    \E a \in Admins :
        /\ admin[a].pc = "done"
        /\ admin[a].op = "publish"
        /\ admin[a].res = "ok"
        /\ program.status = "published"
        /\ program.publishedAt = 1
        /\ now = 2
        /\ \A l \in Lessons : lessons[l].status = "published"
        /\ lessons[admin[a].l].publishedAt = 2

\* a step in which a cascade writes (or decides not to write) the program
CascadeStep ==
    \/ \E a \in Admins : publishLesson_autoPublish(a)
    \/ \E w \in Workers : processScheduledLessons_commit(w)

\* C12 (as claimed): under concurrent publications and program updates, a
\* cascade never changes a publishedAt the program already has, and never
\* overwrites a stored program status other than draft.
C12_CascadeIdempotentConcurrent ==
    /\ [][CascadeStep /\ program.publishedAt # NoDate
            => program'.publishedAt = program.publishedAt]_vars
    /\ [][CascadeStep /\ program.status # "draft"
            => program'.status = program.status]_vars

\* C13: a worker step changes the program only from draft to published; a
\* program stored as published or archived is left as it is.
C13_WorkerLeavesPublishedProgram ==
    [][\A w \in Workers : WorkerStep(w) =>
            \/ program' = program
            \/ /\ program.status = "draft"
               /\ program'.status = "published"
               /\ program'.publishedAt # NoDate]_vars

\* C13 witness: the worker is about to commit the publication of a lesson
\* whose program is archived, with no write of the program pending.
C13_Witness ==
    \E w \in Workers :
        /\ worker[w].pc = "commit"
        /\ worker[w].curProgram.status = "archived"
        /\ worker[w].pendingProgram = NoProgram
        /\ program.status = "archived"

\* C14: when the worker's asset check of a due lesson finds a required
\* thumbnail missing at that moment, the lesson and the program stay as
\* stored, the tick counts one error and no publication, and the loop moves
\* on to the next lesson; a tick never counts more outcomes than the lessons
\* it has gone through.
C14_MissingAssetLeavesScheduled ==
    /\ [][\A w \in Workers :
            (/\ processScheduledLessons_validateAssets(w)
             /\ Missing(CurrentLesson(w), worker[w].cur.contentLanguagePrimary) # {})
            => /\ lessons' = lessons
               /\ program' = program
               /\ worker'[w].errorCount = worker[w].errorCount + 1
               /\ worker'[w].processedCount = worker[w].processedCount
               /\ worker'[w].pc = "loop"
               /\ worker'[w].i = worker[w].i + 1]_vars
    /\ [](\A w \in Workers :
            worker[w].errorCount + worker[w].processedCount
                <= (worker[w].i - 1) + (IF worker[w].pc = "commit" THEN 1 ELSE 0))

\* C14 witness: a lesson was scheduled, a thumbnail is gone, the due tick has
\* gone through the lesson, counted one error, and the lesson is still
\* scheduled with its publishAt.
C14_Witness ==
    \E w \in Workers :
        /\ worker[w].pc = "loop"
        /\ Len(worker[w].found) = 1
        /\ worker[w].i = 2
        /\ worker[w].errorCount = 1
        /\ worker[w].processedCount = 0
        /\ lessons[worker[w].found[1]].status = "scheduled"
        /\ lessons[worker[w].found[1]].publishAt = 2
        /\ program = NewProgram
        /\ Missing(worker[w].found[1], "en") = {"landscape"}

\* C15 (as claimed): a lesson with its thumbnails that was scheduled from
\* draft and is due is eventually published, with publishedAt set and
\* publishAt cleared, and its program is then published, as long as the
\* clock and the worker keep running and no admin touches the lesson again.
C15_ScheduledEventuallyPublished ==
    \A l \in Lessons :
        (lessons[l].status = "scheduled" /\ lessons[l].publishAt <= now)
            ~> (/\ lessons[l].status = "published"
                /\ lessons[l].publishedAt # NoDate
                /\ lessons[l].publishAt = NoDate
                /\ program.status = "published")

\* C16 (as claimed): a schedule request on a lesson stored as archived is
\* rejected and leaves the lesson archived, and no worker step changes an
\* archived lesson.
C16_ArchivedNotRescheduled ==
    /\ [][\A a \in Admins :
            (/\ admin[a].pc = "loaded"
             /\ admin[a].op = "schedule"
             /\ admin'[a] # admin[a]
             /\ lessons[admin[a].l].status = "archived")
            => /\ admin'[a].res = "error"
               /\ lessons' = lessons]_vars
    /\ [][\A w \in Workers, l \in Lessons :
            WorkerStep(w) /\ lessons[l].status = "archived"
                => lessons'[l] = lessons[l]]_vars

\* C17 (as claimed): the admin operations can return a scheduled lesson to
\* draft: when the admin keeps using every lesson operation, a scheduled
\* lesson is eventually a draft again.
C17_ScheduledCanBeCancelled ==
    \A l \in Lessons :
        lessons[l].status = "scheduled" ~> lessons[l].status = "draft"

\* C18 (as claimed): the program has a publishedAt if and only if its status
\* is published, in every reachable state.
C18_ProgramPublishedAtIffPublished ==
    program.status = "published" <=> program.publishedAt # NoDate

\* C19: when the worker's per-lesson read finds a lesson of its due list no
\* longer scheduled, the step changes neither the lesson nor the program,
\* counts neither a publication nor an error, and the loop moves on.
C19_StatusChangedIsNoOp ==
    [][\A w \in Workers :
            (/\ processScheduledLessons_findById(w)
             /\ lessons[CurrentLesson(w)].status # "scheduled")
            => /\ lessons' = lessons
               /\ program' = program
               /\ worker'[w].processedCount = worker[w].processedCount
               /\ worker'[w].errorCount = worker[w].errorCount
               /\ worker'[w].pc = "loop"
               /\ worker'[w].i = worker[w].i + 1]_vars

\* C19 witness: the worker has gone through a lesson of its due list that an
\* admin archived after the scan, with both counters at zero.
C19_Witness ==
    \E w \in Workers :
        /\ worker[w].pc = "loop"
        /\ Len(worker[w].found) = 1
        /\ worker[w].i = 2
        /\ lessons[worker[w].found[1]].status = "archived"
        /\ worker[w].processedCount = 0
        /\ worker[w].errorCount = 0
        /\ program = NewProgram

\* C20: within a tick the loop goes through the due list one lesson at a
\* time and the tick ends only after the last one; an exception or a failed
\* asset check counts one error, writes nothing and moves to the next
\* lesson; and a worker step never changes a lesson other than the one it is
\* processing.
C20_LessonsProcessedIndependently ==
    /\ [][\A w \in Workers :
            worker[w].pc # "idle" /\ worker'[w].pc # "idle"
                /\ worker'[w].i # worker[w].i
                => worker'[w].i = worker[w].i + 1]_vars
    /\ [][\A w \in Workers :
            worker[w].pc # "idle" /\ worker'[w].pc = "idle"
                => worker[w].i = Len(worker[w].found) + 1]_vars
    /\ [][\A w \in Workers :
            (\/ processScheduledLessons_catch(w)
             \/ /\ processScheduledLessons_validateAssets(w)
                /\ worker'[w].pc = "loop")
            => /\ worker'[w].errorCount = worker[w].errorCount + 1
               /\ worker'[w].i = worker[w].i + 1
               /\ worker'[w].found = worker[w].found
               /\ lessons' = lessons
               /\ program' = program]_vars
    /\ [][\A w \in Workers, l \in Lessons :
            (/\ worker[w].pc # "idle"
             /\ worker[w].i <= Len(worker[w].found)
             /\ l # CurrentLesson(w)
             /\ WorkerStep(w) \/ processScheduledLessons_catch(w))
            => lessons'[l] = lessons[l]]_vars

\* C20 witness: a tick found two due lessons, the first ended in an error
\* and is still scheduled, the second was published in the same tick.
C20_Witness ==
    \E w \in Workers :
        /\ worker[w].pc = "loop"
        /\ Len(worker[w].found) = 2
        /\ worker[w].i = 3
        /\ worker[w].errorCount = 1
        /\ worker[w].processedCount = 1
        /\ lessons[worker[w].found[1]].status = "scheduled"
        /\ lessons[worker[w].found[2]].status = "published"

\* C21: when the due query of a tick fails, the step changes no lesson and
\* no program and leaves no lesson found or counted; the worker is idle
\* again, and the next tick can run its scan.
C21_FailedScanChangesNothing ==
    /\ [][\A w \in Workers : processScheduledLessons_findFails(w) =>
            /\ lessons' = lessons
            /\ program' = program
            /\ worker'[w].pc = "idle"
            /\ worker'[w].found = <<>>
            /\ worker'[w].processedCount = 0
            /\ worker'[w].errorCount = 0]_vars
    /\ [](\A w \in Workers :
            worker[w].scanError => ENABLED processScheduledLessons_find(w))

\* C21 witness: a scan failed while a lesson was due; the lesson is still
\* scheduled and the worker is idle.
C21_Witness ==
    \E w \in Workers :
        /\ worker[w].scanError
        /\ worker[w].pc = "idle"
        /\ Due(now) # {}

\* C22 (as claimed): at most one call of processScheduledLessons is active
\* in a worker process at any time.
C22_SingleActiveTick ==
    Cardinality({w \in Workers : worker[w].pc # "idle"}) <= 1

\* C23 (as claimed): the startup scan runs once, and it has started before
\* the cron job fires for the first time.
C23_StartupScanFirst ==
    timers.cron => timers.startup = "fired"

\* C24: the due list of a tick holds exactly the lessons stored as scheduled
\* with a publishAt not after the scan time, each once, in ascending
\* publishAt; the loop takes them in that order, so a lesson is reached only
\* after every lesson before it in the list.
C24_DueSetSortedByPublishAt ==
    /\ [][\A w \in Workers : processScheduledLessons_find(w) =>
            LET q == worker'[w].found
                due == {l \in Lessons : /\ lessons[l].status = "scheduled"
                                        /\ lessons[l].publishAt # NoDate
                                        /\ lessons[l].publishAt <= now}
            IN /\ {q[j] : j \in 1..Len(q)} = due
               /\ Len(q) = Cardinality(due)
               /\ \A j, k \in 1..Len(q) :
                    j < k => lessons[q[j]].publishAt <= lessons[q[k]].publishAt
               /\ worker'[w].i = 1]_vars
    /\ [][\A w \in Workers :
            worker[w].pc # "idle" /\ worker'[w].pc # "idle"
                => /\ worker'[w].found = worker[w].found
                   /\ worker'[w].i \in {worker[w].i, worker[w].i + 1}]_vars

\* C24 witness: a tick is processing the first lesson of a due list of two,
\* the one with the earlier publishAt.
C24_Witness ==
    \E w \in Workers :
        /\ Len(worker[w].found) = 2
        /\ worker[w].i = 1
        /\ worker[w].pc = "validate"
        /\ worker[w].cur.publishAt = 1
        /\ lessons[worker[w].found[2]].status = "scheduled"
        /\ lessons[worker[w].found[2]].publishAt = 2

C27_AdminAndWorkerSameTransition ==
    /\ [][\A a \in Admins : publishLesson_save(a) =>
            LET l == admin[a].l
            IN /\ lessons[l].status \in {"published", "archived"}
                    => lessons'[l] = lessons[l]
               /\ (lessons[l].status = "scheduled" /\ lessons[l].publishAt <= now
                      /\ Missing(l, lessons[l].contentLanguagePrimary) = {})
                    => /\ lessons'[l].status = "published"
                       /\ lessons'[l].publishedAt # NoDate
                       /\ lessons'[l].publishAt = NoDate]_vars
    /\ [][\A w \in Workers : processScheduledLessons_validateAssets(w) =>
            (Missing(CurrentLesson(w), worker[w].cur.contentLanguagePrimary) = {}
                => worker'[w].pc = "save")]_vars
    /\ [][\A w \in Workers : processScheduledLessons_commit(w) =>
            LET l == CurrentLesson(w)
            IN /\ lessons[l].status \in {"published", "archived"}
                    => lessons'[l] = lessons[l]
               /\ lessons[l].status = "scheduled"
                    => /\ lessons'[l].status = "published"
                       /\ lessons'[l].publishedAt # NoDate
                       /\ lessons'[l].publishAt = NoDate]_vars
    /\ [][CascadeStep =>
            /\ program'.status # "draft"
            /\ program.publishedAt # NoDate
                    => program'.publishedAt = program.publishedAt]_vars

\* C28: a published lesson whose admin publish request is not still between
\* its save and its cascade has a program that is not a draft; so after
\* completed publish, schedule and archive requests and worker ticks, with
\* no failed write, every published lesson's program is published or
\* archived.
C28_PublishedLessonProgramNotDraft ==
    \A l \in Lessons :
        (/\ lessons[l].status = "published"
         /\ ~\E a \in Admins : /\ admin[a].op = "publish"
                                /\ admin[a].l = l
                                /\ admin[a].pc \in {"saved", "progLoaded"})
            => program.status \in {"published", "archived"}

\* C28 witness: all requests and ticks are over, one lesson was published by
\* an admin request, the other is published too, and the program, a draft
\* at the start, is published.
C28_Witness ==
    /\ \A a \in Admins : admin[a].pc \in {"idle", "done"}
    /\ \A w \in Workers : worker[w].pc = "idle"
    /\ \E a \in Admins : /\ admin[a].pc = "done"
                          /\ admin[a].op = "publish"
                          /\ admin[a].res = "ok"
                          /\ lessons[admin[a].l].status = "published"
    /\ \A l \in Lessons : lessons[l].status = "published"
    /\ program.status = "published"
    /\ program.publishedAt = 2

\* C29 (as claimed): whatever the stored status, an archive request is
\* accepted and its save leaves the lesson stored with status archived, with
\* the publishAt and publishedAt it had, and leaves the program as it was.
C29_ArchiveChangesOnlyStatus ==
    [][\A a \in Admins : archiveLesson_archive(a) =>
        LET l == admin[a].l
        IN /\ admin'[a].res = "ok"
           /\ lessons'[l].status = "archived"
           /\ lessons'[l].publishAt = lessons[l].publishAt
           /\ lessons'[l].publishedAt = lessons[l].publishedAt
           /\ program' = program]_vars

\* C30 (as claimed): a lesson that fails the worker's asset check is left
\* scheduled with its publishAt, every scan returns every lesson that is
\* scheduled and due, and once both thumbnails of a scheduled, due lesson
\* exist the ticks that follow publish it.
C30_FailedAssetCheckRetriedUntilPublished ==
    /\ [][\A w \in Workers :
            (processScheduledLessons_validateAssets(w) /\ worker'[w].pc # "save")
                => /\ lessons' = lessons
                   /\ lessons[CurrentLesson(w)].status = "scheduled"
                   /\ lessons[CurrentLesson(w)].publishAt # NoDate]_vars
    /\ [][\A w \in Workers : processScheduledLessons_find(w) =>
            \A l \in Due(now) :
                \E k \in 1..Len(worker'[w].found) : worker'[w].found[k] = l]_vars
    /\ \A l \in Lessons :
          (/\ lessons[l].status = "scheduled"
           /\ lessons[l].publishAt <= now
           /\ Missing(l, lessons[l].contentLanguagePrimary) = {})
              ~> (lessons[l].status = "published")

====
